---- MODULE Spec2Model ----
(***************************************************************************)
(* Model of the Telegram image-dialog bot: the file-backed JsonStore, the   *)
(* in-memory SessionManager, the GeminiClient retry loops and the message   *)
(* handlers of BotHandlers, as a state machine whose steps are the          *)
(* stretches of handler code between two awaits.                            *)
(*                                                                         *)
(* Time is the wall clock in whole seconds.  A dialog id is the wall clock  *)
(* formatted to the second, so it is modelled as the clock value itself.    *)
(***************************************************************************)
EXTENDS Integers, Sequences, FiniteSets, TLC

VARIABLES
    now,        \* time.time(), in seconds
    users,      \* users/<chat_id>.json : chat_id -> profile (DOMAIN = files that exist)
    dialogs,    \* dialogs/<chat_id>/<dialog_id>.json : chat_id -> (dialog_id -> dialog)
    sessions,   \* SessionManager._sessions : chat_id -> reference to an ActiveSession
    heap,       \* the ActiveSession objects, by reference
    tasks,      \* handler coroutines suspended at an await
    started,    \* number of message-handler invocations begun so far
    ev,         \* what the last step did (the observable outcome of the step)
    g,          \* one call of a GeminiClient remote operation, attempt by attempt
    fs,         \* the files one _atomic_write touches: name -> content
    aw,         \* the position of the _atomic_write in progress and of its reader
    ls          \* one call of list_dialogs by /history: its inputs and its result

vars == <<now, users, dialogs, sessions, heap, tasks, started, ev, g, fs, aw, ls>>

mainVars == <<now, users, dialogs, sessions, heap, tasks, started, ev>>

----------------------------------------------------------------------------
(* Bounds of the model *)

Users == {1, 2}

MaxTime == 3

MaxTurns == 3

MaxTasks == 2

\* SessionManager._idle_seconds, in clock seconds
IdleSeconds == 1

\* days * 86400 of prune_old, in clock seconds
RetentionSeconds == 1

Tasks == 1 .. MaxTasks

Times == 1 .. MaxTime

\* references an ActiveSession can have: one per cache entry and per coroutine
Refs == 1 .. (Cardinality(Users) + MaxTasks)

----------------------------------------------------------------------------
(* Helpers *)

\* Python's None for a timestamp field
NoTime == -1

\* a dict with one more key (or one key replaced)
Put(f, k, v) == (k :> v) @@ f

\* a dict without the keys in S
Drop(f, S) == [k \in (DOMAIN f) \ S |-> f[k]]

\* [e for e in s if keep(e)]
RECURSIVE FilterSeq(_, _)
FilterSeq(s, ids) ==
    IF s = <<>> THEN <<>>
    ELSE IF Head(s).dialog_id \in ids
         THEN FilterSeq(Tail(s), ids)
         ELSE <<Head(s)>> \o FilterSeq(Tail(s), ids)

----------------------------------------------------------------------------
(* JsonStore *)

\* an init_user_if_needed that builds a new profile on every call
InitUserReset(us, u, t) ==
    [first_seen |-> t, last_seen |-> t, dialogs_index |-> <<>>,
     total_requests |-> 0, total_dialogs |-> 0, last_active_at |-> t]

\* JsonStore.init_user_if_needed: the profile it builds, saves and returns
InitUserRet(us, u, t) ==
    IF u \notin DOMAIN us
    THEN [first_seen |-> t, last_seen |-> t, dialogs_index |-> <<>>,
          total_requests |-> 0, total_dialogs |-> 0, last_active_at |-> t]
    ELSE [us[u] EXCEPT !.last_seen = t, !.last_active_at = t]

\* JsonStore.init_user_if_needed: the profiles after save_user(u)
InitUserIfNeeded(us, u, t) == Put(us, u, InitUserRet(us, u, t))

\* DialogIndexEntry as built by handle_message
IndexEntry(d, t) == [dialog_id |-> d, started_at |-> t, closed_at |-> NoTime]

\* JsonStore.add_dialog_index_entry (the caller has checked that the profile exists)
AddDialogIndexEntry(us, u, entry) ==
    [us EXCEPT ![u].dialogs_index = Append(@, entry),
               ![u].total_dialogs = @ + 1]

\* JsonStore.open_dialog: writes the record, replacing whatever is at the path
OpenDialog(ds, u, d, t) ==
    [ds EXCEPT ![u] = Put(@, d, [started_at |-> t, closed_at |-> NoTime, messages |-> <<>>])]

\* path.exists() of a dialog file
DialogExists(ds, u, d) == d \in DOMAIN ds[u]

\* JsonStore.append_message, the dialog file part (the file exists)
AppendToDialog(ds, u, d, m) ==
    [ds EXCEPT ![u][d].messages = Append(@, m)]

\* an append_message that leaves the user's stats alone
CountRequestNone(us, u) == us

\* JsonStore.append_message, the user stats part
CountRequest(us, u) ==
    IF u \in DOMAIN us THEN [us EXCEPT ![u].total_requests = @ + 1] ELSE us

\* an index filter that also takes the removed entries off total_dialogs
IndexWithoutRecount(us, u, ids) ==
    IF u \in DOMAIN us
    THEN [us EXCEPT ![u].dialogs_index = FilterSeq(@, ids),
                    ![u].total_dialogs = Len(FilterSeq(us[u].dialogs_index, ids))]
    ELSE us

\* the index without the entries of the dialogs in ids
IndexWithout(us, u, ids) ==
    IF u \in DOMAIN us
    THEN [us EXCEPT ![u].dialogs_index = FilterSeq(@, ids)]
    ELSE us

\* JsonStore.delete_dialog: the dialog files after it
DeleteDialogFiles(ds, u, d) == [ds EXCEPT ![u] = Drop(@, {d})]

\* delete_dialog that unlinks the file and leaves the index as it is
DeleteDialogIndexKept(us, u, d) == us

\* JsonStore.delete_dialog: the profiles after it
DeleteDialogIndex(us, u, d) == IndexWithout(us, u, {d})

\* JsonStore.clear_all_dialogs: the dialog files after it
ClearAllFiles(ds, u) == [ds EXCEPT ![u] = Drop(@, DOMAIN @)]

\* JsonStore.clear_all_dialogs: "count", the files unlinked
ClearAllCount(ds, u) == Cardinality(DOMAIN ds[u])

\* clear_all_dialogs that unlinks the files and leaves the index as it is
ClearAllIndexKept(us, u) == us

\* JsonStore.clear_all_dialogs: the profiles after it
ClearAllIndex(us, u) ==
    IF u \in DOMAIN us THEN [us EXCEPT ![u].dialogs_index = <<>>] ELSE us

\* a prune_old whose test is started <= cutoff
PruneSetInclusive(ds, u, t) ==
    {d \in DOMAIN ds[u] :
        /\ ds[u][d].started_at # 0
        /\ ds[u][d].started_at <= t - RetentionSeconds}

\* JsonStore.prune_old: the dialogs of u it removes at time t
PruneSet(ds, u, t) ==
    {d \in DOMAIN ds[u] :
        /\ ds[u][d].started_at # 0
        /\ ds[u][d].started_at < t - RetentionSeconds}

\* JsonStore.prune_old: "removed", counted over the chat directories in us
RECURSIVE PruneCount(_, _, _)
PruneCount(ds, us, t) ==
    IF us = {} THEN 0
    ELSE LET u == CHOOSE x \in us : TRUE
         IN Cardinality(PruneSet(ds, u, t)) + PruneCount(ds, us \ {u}, t)

\* JsonStore.prune_old: the dialog files after it
PruneFiles(ds, t) == [u \in Users |-> Drop(ds[u], PruneSet(ds, u, t))]

\* JsonStore.prune_old: the profiles after it
PruneIndex(us, ds, t) ==
    [u \in DOMAIN us |-> IndexWithout(us, u, PruneSet(ds, u, t))[u]]

----------------------------------------------------------------------------
(* SessionManager *)

\* the idle test with >= in place of >
ExpiredEarly(s, t) == t - s.last_activity_at >= IdleSeconds

\* the idle test of SessionManager.get
Expired(s, t) == t - s.last_activity_at > IdleSeconds

\* a get that returns whatever is stored, however old
GetRetStale(ss, hp, u, t) == IF u \in DOMAIN ss THEN ss[u] ELSE 0

\* SessionManager.get: the reference returned, 0 for None
GetRet(ss, hp, u, t) ==
    IF u \notin DOMAIN ss THEN 0
    ELSE IF Expired(hp[ss[u]], t) THEN 0
    ELSE ss[u]

\* SessionManager.get: the cache after it
GetCache(ss, hp, u, t) ==
    IF u \in DOMAIN ss /\ Expired(hp[ss[u]], t) THEN Drop(ss, {u}) ELSE ss

\* SessionManager.set
SetSession(ss, u, r) == Put(ss, u, r)

\* a clear that empties the whole cache
ClearSessionAll(ss, u) == <<>>

\* SessionManager.clear
ClearSession(ss, u) == Drop(ss, {u})

\* the ActiveSession objects still referenced by the cache or by a coroutine
Collect(hp, ss, ts) ==
    Drop(hp, (DOMAIN hp) \ ({ss[u] : u \in DOMAIN ss} \cup {ts[k].ref : k \in Tasks}))

\* the reference a newly constructed ActiveSession gets
FreshRef(hp) == CHOOSE r \in Refs : r \notin DOMAIN hp /\ \A q \in Refs : q < r => q \in DOMAIN hp

\* ActiveSession(dialog_id, ..., last_activity_at=time.time(), message_seq=0)
NewSession(d, t) == [dialog_id |-> d, last_activity_at |-> t, message_seq |-> 0]

----------------------------------------------------------------------------
(* GeminiClient: one call of start_chat_and_answer_first or send_chat_message *)

\* outcomes of one provider call: success, or the exception it raises
Faults == {"FailedPrecondition", "GoogleAPICallError", "Exception"}

\* the RuntimeError codes the GeminiClient operations raise
Codes == {"gemini_region_blocked", "gemini_api_error", "gemini_unknown_error"}

\* answers the provider can give
MaxAnswers == 2

Answers == 1 .. MaxAnswers

\* conversation handles (ChatSession objects)
MaxChats == 3

Chats == 1 .. MaxChats

\* "if attempt >= 2": the number of failed attempts that ends the call
RetryBudget == 2

\* "0.8 * attempt" of asyncio.sleep, in tenths of a second per attempt
BackoffTenths == 8

\* the except clause that catches exception e, as the RuntimeError code it raises
\* at the end of the budget (FailedPrecondition is caught first)
Classify(e) ==
    IF e = "FailedPrecondition" THEN "gemini_region_blocked"
    ELSE IF e = "GoogleAPICallError" THEN "gemini_api_error"
    ELSE "gemini_unknown_error"

\* a retry loop without the FailedPrecondition clause
RetryableAll(e) == TRUE

\* the except clauses that count the attempt and go round the loop again
Retryable(e) == e # "FailedPrecondition"

\* the budget test with > in place of >=
ExhaustedLate(a) == a > RetryBudget

\* "if attempt >= 2: raise"
Exhausted(a) == a >= RetryBudget

\* the sleep computed from the attempt about to be made
DelayNext(a) == BackoffTenths * (a + 1)

\* "await asyncio.sleep(0.8 * attempt)", in tenths of a second
Delay(a) == BackoffTenths * a

\* no call in progress
GIdle ==
    [op |-> "none", pc |-> "idle", chat |-> 0, attempt |-> 0, trace |-> <<>>,
     kind |-> "none", value |-> "", answer |-> 0, handle |-> 0]

\* trace entries: one provider call made in a worker thread, one sleep
AttemptEntry(out, ans) == [e |-> "attempt", out |-> out, n |-> ans]

SleepEntry(d) == [e |-> "sleep", out |-> "", n |-> d]

\* the call returns
Returned(st, ans, handle) ==
    [st EXCEPT !.pc = "done", !.kind = "return", !.answer = ans, !.handle = handle]

\* the call raises RuntimeError(code)
Raised(st, code) == [st EXCEPT !.pc = "done", !.kind = "RuntimeError", !.value = code]

\* the call lets the exception e of the provider library through
Escaped(st, e) == [st EXCEPT !.pc = "done", !.kind = "raw", !.value = e]

----------------------------------------------------------------------------
(* JsonStore._atomic_write, step by step, and a concurrent reader *)

\* final paths written: dialogs/<chat_id>/<dialog_id>.json of two users for one
\* dialog id, so two paths with the same path.name
Paths == {1, 2}

\* documents: the versions of a JSON record
Docs == {1, 2}

\* the writes json.dump makes for one document
Chunks == 2

\* int(time.time()*1000) values a temporary name can carry
MaxStamps == 1

Stamps == 1 .. MaxStamps

\* json.dump(content): the text of a document, as the chunks written
Serialize(v) == [i \in 1 .. Chunks |-> v]

\* tmp_dir / f"{path.name}.{int(time.time()*1000)}.tmp": a file of the scratch
\* directory, named by the last component of the path and the stamp
TmpName(p, ms) == Cardinality(Paths) + ms

\* a write made in place, on the final path
WriteInPlace(p, ms) == p

\* the file _atomic_write opens for writing, given the final path p and stamp ms
WriteTarget(p, ms) == TmpName(p, ms)

\* what a reader of file n gets: its whole content, <<0>> when it does not exist
NoFile == <<0>>

ReadFile(files, n) == IF n \in DOMAIN files THEN files[n] ELSE NoFile

\* no write in progress
AwIdle == [pc |-> "idle", path |-> 0, doc |-> 0, tmp |-> 0, old |-> NoFile,
           read |-> NoFile, readPath |-> 0]

----------------------------------------------------------------------------
(* JsonStore.list_dialogs as /history calls it *)

\* entries an index can hold
MaxIndex == 3

\* the most negative number a user types after /history, as a positive number
MaxNegative == 2

\* "limit = int(args[0]) if args else 5" and "except ValueError: limit = 5"
DefaultLimit == 5

\* the argument of /history: none, text that int() rejects, or the text of an integer
HistoryArgs ==
    {[kind |-> "none", n |-> 0], [kind |-> "junk", n |-> 0]}
        \cup {[kind |-> "int", n |-> i] : i \in (0 - MaxNegative) .. (MaxIndex + 1)}

\* cmd_history lines 93-97: the limit passed to list_dialogs
HistoryLimit(arg) == IF arg.kind = "int" THEN arg.n ELSE DefaultLimit

\* the indexes listed: entries in the order they were appended, each with the
\* clock reading at which its dialog was opened
RECURSIVE IndexesOfLen(_)
IndexesOfLen(n) ==
    IF n = 0 THEN {<<>>}
    ELSE {Append(s, [dialog_id |-> n, started_at |-> t]) : s \in IndexesOfLen(n - 1), t \in Times}

Indexes == UNION {IndexesOfLen(n) : n \in 0 .. MaxIndex}

\* list.sort(key=started_at, reverse=True): e goes after every entry whose key
\* is >= its own (the sort is stable)
RECURSIVE InsertDesc(_, _)
InsertDesc(s, e) ==
    IF s = <<>> THEN <<e>>
    ELSE IF Head(s).started_at >= e.started_at
         THEN <<Head(s)>> \o InsertDesc(Tail(s), e)
         ELSE <<e>> \o s

RECURSIVE SortDesc(_)
SortDesc(s) ==
    IF s = <<>> THEN <<>>
    ELSE InsertDesc(SortDesc(SubSeq(s, 1, Len(s) - 1)), s[Len(s)])

\* Python's s[:n]: a negative n counts from the end
SliceTo(s, n) ==
    IF n >= 0
    THEN SubSeq(s, 1, IF n < Len(s) THEN n ELSE Len(s))
    ELSE SubSeq(s, 1, IF Len(s) + n > 0 THEN Len(s) + n ELSE 0)

\* JsonStore.list_dialogs on a stored index
ListDialogs(idx, limit) == SliceTo(SortDesc(idx), limit)

\* no call of list_dialogs made
LsIdle == [pc |-> "idle", idx |-> <<>>, arg |-> [kind |-> "none", n |-> 0],
           limit |-> 0, out |-> <<>>]

----------------------------------------------------------------------------
(* BotHandlers *)

\* time.strftime("%Y%m%d-%H%M%S"): the clock, to the second
DialogId(t) == t

\* a coroutine slot with no handler in it; gone records that the dialog of the
\* session a text turn holds was deleted while the turn awaited the model
IdleTask == [pc |-> "idle", user |-> 0, dialog_id |-> 0, ref |-> 0, gone |-> FALSE]

\* the coroutines after a step that left the dialog files ds: a text turn awaiting
\* the model whose dialog is not among them has lost it
MarkDeleted(ts, ds) ==
    [k \in Tasks |->
        IF ts[k].pc = "send_chat" /\ ~DialogExists(ds, ts[k].user, heap[ts[k].ref].dialog_id)
        THEN [ts[k] EXCEPT !.gone = TRUE]
        ELSE ts[k]]

\* the message dicts handle_message appends
Message(id, role) == [message_id |-> id, role |-> role]

\* the exceptions a handler can let through; all derive from Exception
Errors == Faults \cup {"FileNotFoundError", "RuntimeError"}

\* an error handler that swallows the error and sends nothing
OnErrorSilent(err) == "none"

\* on_error of create_application, called by the dispatcher with the exception a
\* handler raised: "except Exception" and one reply_text
OnError(err) == IF err \in Errors THEN "apology" ELSE "none"

\* the except RuntimeError branches of handle_message: the reply for a code
ErrorReply(code) ==
    IF code = "gemini_region_blocked" THEN "region_blocked" ELSE "model_failed"

\* the reply_text a step makes, "none" when it makes none
ReplyOf(op, res) ==
    CASE op \in {"photo_raised", "text_raised"} -> OnError(res)
      [] op \in {"photo_failed", "text_failed"} -> ErrorReply(res)
      [] op \in {"photo_done", "text_done"} -> "answer"
      [] op = "text" /\ res = "no_session" -> "need_photo"
      [] op = "clear_current" -> IF res = "deleted" THEN "deleted" ELSE "no_active"
      [] op = "clear_all" -> "cleared"
      [] op = "history" -> "history"
      [] op = "start" -> "welcome"
      [] OTHER -> "none"

\* what a step did; get* describe the SessionManager.get the step made, if any;
\* count is the number a store operation of the step returned, reply the
\* message sent to the user
Event(op, u, res) ==
    [op |-> op, user |-> u, res |-> res, dialog_id |-> 0,
     get |-> FALSE, had |-> FALSE, last |-> 0, ret |-> 0, count |-> 0,
     reply |-> ReplyOf(op, res)]

\* the event of a step that called SessionManager.get(u)
GetEvent(op, u, res, d) ==
    [op |-> op, user |-> u, res |-> res, dialog_id |-> d,
     get |-> TRUE,
     had |-> u \in DOMAIN sessions,
     last |-> IF u \in DOMAIN sessions THEN heap[sessions[u]].last_activity_at ELSE 0,
     ret |-> GetRet(sessions, heap, u, now),
     count |-> 0,
     reply |-> ReplyOf(op, res)]

Init ==
    /\ now = 1
    /\ users = <<>>
    /\ dialogs = [u \in Users |-> <<>>]
    /\ sessions = <<>>
    /\ heap = <<>>
    /\ tasks = [k \in Tasks |-> IdleTask]
    /\ started = 0
    /\ ev = Event("init", 0, "")
    /\ g = GIdle
    /\ fs = <<>>
    /\ aw = AwIdle
    /\ ls = LsIdle

\* a new handler coroutine takes the first free slot
FreeSlot(k) ==
    /\ tasks[k].pc = "idle"
    /\ \A j \in Tasks : j < k => tasks[j].pc # "idle"

\* handle_message, lines 160-167: prune_old and init_user_if_needed
AfterEntry(u) == InitUserIfNeeded(PruneIndex(users, dialogs, now), u, now)

\* handle_message with a photo, up to the first await (photo.get_file)
HandlePhoto(k, u) ==
    /\ FreeSlot(k)
    /\ started < MaxTurns
    /\ started' = started + 1
    /\ users' = AfterEntry(u)
    /\ dialogs' = PruneFiles(dialogs, now)
    /\ tasks' = MarkDeleted([tasks EXCEPT ![k] = [IdleTask EXCEPT !.pc = "download",
                                                                  !.user = u]],
                            PruneFiles(dialogs, now))
    /\ ev' = [Event("photo", u, "") EXCEPT !.count = PruneCount(dialogs, Users, now)]
    /\ UNCHANGED <<ls, now, sessions, heap, g, fs, aw>>

\* the event loop is not inside a blocking call: a coroutine that makes a blocking
\* call without await keeps the loop's only thread until the call returns
LoopFree == \A k \in Tasks : tasks[k].pc # "upload"

\* handle_message lines 178-207 and gemini.py line 81: open the dialog, add the
\* index entry, enter start_chat_and_answer_first, whose first statement calls
\* build_history_with_image, an upload made by the coroutine itself
PhotoOpen(k) ==
    /\ LoopFree
    /\ tasks[k].pc = "download"
    /\ LET u == tasks[k].user
           d == DialogId(now)
       IN /\ dialogs' = OpenDialog(dialogs, u, d, now)
          /\ IF u \notin DOMAIN users
             THEN /\ users' = users
                  /\ tasks' = [tasks EXCEPT ![k] = IdleTask]
                  /\ ev' = [Event("photo_raised", u, "RuntimeError") EXCEPT !.dialog_id = d]
             ELSE /\ users' = AddDialogIndexEntry(users, u, IndexEntry(d, now))
                  /\ tasks' = [tasks EXCEPT ![k].pc = "upload", ![k].dialog_id = d]
                  /\ ev' = [Event("photo_opened", u, "") EXCEPT !.dialog_id = d]
    /\ UNCHANGED <<ls, now, sessions, heap, started, g, fs, aw>>

\* gemini.py lines 81-91: the upload of build_history_with_image returns or raises;
\* after it the first attempt is handed to a worker thread and the coroutine awaits
PhotoUpload(k) ==
    /\ tasks[k].pc = "upload"
    /\ LET u == tasks[k].user
           d == tasks[k].dialog_id
       IN \E up \in Faults \cup {"ok"} :
            IF up = "ok"
            THEN /\ tasks' = [tasks EXCEPT ![k].pc = "start_chat"]
                 /\ ev' = [Event("photo_uploaded", u, "") EXCEPT !.dialog_id = d]
            ELSE /\ tasks' = [tasks EXCEPT ![k] = IdleTask]
                 /\ ev' = [Event("photo_raised", u, up) EXCEPT !.dialog_id = d]
    /\ UNCHANGED <<ls, now, users, dialogs, sessions, heap, started, g, fs, aw>>

\* handle_message lines 206-233: the answer of start_chat_and_answer_first arrives
PhotoAnswer(k) ==
    /\ LoopFree
    /\ tasks[k].pc = "start_chat"
    /\ LET u == tasks[k].user
           d == tasks[k].dialog_id
       IN \E res \in Codes \cup {"ok"} :
            IF res = "ok"
            THEN LET r == FreshRef(heap)
                     ts == [tasks EXCEPT ![k].pc = "typing", ![k].ref = r]
                     ss == SetSession(sessions, u, r)
                 IN /\ tasks' = ts
                    /\ sessions' = ss
                    /\ heap' = Collect(Put(heap, r, NewSession(d, now)), ss, ts)
                    /\ ev' = [Event("set", u, "ok") EXCEPT !.dialog_id = d, !.ret = r]
            ELSE /\ tasks' = [tasks EXCEPT ![k] = IdleTask]
                 /\ ev' = [Event("photo_failed", u, res) EXCEPT !.dialog_id = d]
                 /\ UNCHANGED <<ls, sessions, heap>>
    /\ UNCHANGED <<ls, now, users, dialogs, started, g, fs, aw>>

\* appends that are made only while the cache still holds the session object
TurnDialogsIfCached(u, d, r) ==
    IF u \in DOMAIN sessions /\ sessions[u] = r
    THEN LET n == heap[r].message_seq
         IN AppendToDialog(AppendToDialog(dialogs, u, d, Message(n + 1, "user")),
                           u, d, Message(n + 2, "assistant"))
    ELSE dialogs

\* the two append_message calls of a turn on session object r, dialog d of user u:
\* the dialogs after them
TurnDialogs(u, d, r) ==
    LET n == heap[r].message_seq
    IN AppendToDialog(AppendToDialog(dialogs, u, d, Message(n + 1, "user")),
                      u, d, Message(n + 2, "assistant"))

\* handle_message lines 236-266: the two messages of an image turn
PhotoAppend(k) ==
    /\ LoopFree
    /\ tasks[k].pc = "typing"
    /\ LET u == tasks[k].user
           d == tasks[k].dialog_id
           r == tasks[k].ref
           ts == [tasks EXCEPT ![k] = IdleTask]
       IN /\ tasks' = ts
          /\ IF DialogExists(dialogs, u, d)
             THEN /\ dialogs' = TurnDialogs(u, d, r)
                  /\ users' = CountRequest(CountRequest(users, u), u)
                  /\ heap' = Collect([heap EXCEPT ![r].message_seq = @ + 2], sessions, ts)
                  /\ ev' = [Event("photo_done", u, "ok") EXCEPT !.dialog_id = d, !.ret = r]
             ELSE /\ heap' = Collect([heap EXCEPT ![r].message_seq = @ + 1], sessions, ts)
                  /\ ev' = [Event("photo_raised", u, "FileNotFoundError")
                                EXCEPT !.dialog_id = d, !.ret = r]
                  /\ UNCHANGED <<ls, users, dialogs>>
    /\ UNCHANGED <<ls, now, sessions, started, g, fs, aw>>

\* handle_message with a text, lines 160-167 and 270-279: up to the await of the answer
HandleText(k, u) ==
    /\ FreeSlot(k)
    /\ started < MaxTurns
    /\ started' = started + 1
    /\ users' = AfterEntry(u)
    /\ dialogs' = PruneFiles(dialogs, now)
    /\ LET r == GetRet(sessions, heap, u, now)
           ss == GetCache(sessions, heap, u, now)
           ts == MarkDeleted(IF r = 0 THEN tasks
                             ELSE [tasks EXCEPT ![k] = [IdleTask EXCEPT !.pc = "send_chat",
                                                                       !.user = u, !.ref = r]],
                             PruneFiles(dialogs, now))
       IN /\ sessions' = ss
          /\ tasks' = ts
          /\ heap' = Collect(heap, ss, ts)
          /\ ev' = [GetEvent("text", u, IF r = 0 THEN "no_session" ELSE "", 0)
                        EXCEPT !.count = PruneCount(dialogs, Users, now)]
    /\ UNCHANGED <<ls, now, g, fs, aw>>

\* handle_message lines 278-322: the answer of send_chat_message arrives
TextAnswer(k) ==
    /\ LoopFree
    /\ tasks[k].pc = "send_chat"
    /\ LET u == tasks[k].user
           r == tasks[k].ref
           d == heap[r].dialog_id
           ts == [tasks EXCEPT ![k] = IdleTask]
       IN /\ tasks' = ts
          /\ \E res \in Codes \cup {"ok"} :
               IF res # "ok"
               THEN /\ heap' = Collect(heap, sessions, ts)
                    /\ ev' = [Event("text_failed", u, res) EXCEPT !.dialog_id = d, !.ret = r]
                    /\ UNCHANGED <<ls, users, dialogs>>
               ELSE IF DialogExists(dialogs, u, d)
               THEN /\ dialogs' = TurnDialogs(u, d, r)
                    /\ users' = CountRequest(CountRequest(users, u), u)
                    /\ heap' = Collect([heap EXCEPT ![r].message_seq = @ + 2], sessions, ts)
                    /\ ev' = [Event("text_done", u, "ok") EXCEPT !.dialog_id = d, !.ret = r]
               ELSE /\ heap' = Collect([heap EXCEPT ![r].message_seq = @ + 1], sessions, ts)
                    /\ ev' = [Event("text_raised", u, "FileNotFoundError")
                                  EXCEPT !.dialog_id = d, !.ret = r]
                    /\ UNCHANGED <<ls, users, dialogs>>
    /\ UNCHANGED <<ls, now, sessions, started, g, fs, aw>>

\* cmd_clear with mode "current"
CmdClearCurrent(u) ==
    LET r == GetRet(sessions, heap, u, now)
        ss == GetCache(sessions, heap, u, now)
    IN /\ started < MaxTurns
       /\ started' = started + 1
       /\ IF r = 0
          THEN /\ sessions' = ss
               /\ ev' = GetEvent("clear_current", u, "no_session", 0)
               /\ UNCHANGED <<ls, users, dialogs>>
          ELSE /\ dialogs' = DeleteDialogFiles(dialogs, u, heap[r].dialog_id)
               /\ users' = DeleteDialogIndex(users, u, heap[r].dialog_id)
               /\ sessions' = ClearSession(ss, u)
               /\ ev' = GetEvent("clear_current", u, "deleted", heap[r].dialog_id)
       /\ tasks' = MarkDeleted(tasks, dialogs')
       /\ heap' = Collect(heap, sessions', tasks)
       /\ UNCHANGED <<ls, now, g, fs, aw>>

\* cmd_clear with mode "all"
CmdClearAll(u) ==
    /\ started < MaxTurns
    /\ started' = started + 1
    /\ dialogs' = ClearAllFiles(dialogs, u)
    /\ users' = ClearAllIndex(users, u)
    /\ sessions' = ClearSession(sessions, u)
    /\ tasks' = MarkDeleted(tasks, dialogs')
    /\ heap' = Collect(heap, sessions', tasks)
    /\ ev' = [Event("clear_all", u, "") EXCEPT !.count = ClearAllCount(dialogs, u)]
    /\ UNCHANGED <<ls, now, g, fs, aw>>

\* cmd_history and cmd_dialog: prune_old, then a read
CmdHistory(u) ==
    /\ started < MaxTurns
    /\ started' = started + 1
    /\ dialogs' = PruneFiles(dialogs, now)
    /\ users' = PruneIndex(users, dialogs, now)
    /\ tasks' = MarkDeleted(tasks, dialogs')
    /\ ev' = [Event("history", u, "") EXCEPT !.count = PruneCount(dialogs, Users, now)]
    /\ UNCHANGED <<ls, now, sessions, heap, g, fs, aw>>

\* cmd_start
CmdStart(u) ==
    /\ started < MaxTurns
    /\ started' = started + 1
    /\ users' = InitUserIfNeeded(users, u, now)
    /\ ev' = Event("start", u, "")
    /\ UNCHANGED <<ls, now, dialogs, sessions, heap, tasks, g, fs, aw>>

\* the wall clock advances
Tick ==
    /\ now < MaxTime
    /\ now' = now + 1
    /\ ev' = Event("tick", 0, "")
    /\ UNCHANGED <<ls, users, dialogs, sessions, heap, tasks, started, g, fs, aw>>

\* the process is restarted: memory is lost, the files stay
Restart ==
    /\ sessions' = <<>>
    /\ heap' = <<>>
    /\ tasks' = [k \in Tasks |-> IdleTask]
    /\ ev' = Event("restart", 0, "")
    /\ UNCHANGED <<ls, now, users, dialogs, started, g, fs, aw>>

\* an update arrives and its handler runs up to its first await
Arrive(k) ==
    /\ LoopFree
    /\ \/ \E u \in Users : HandlePhoto(k, u)
       \/ \E u \in Users : HandleText(k, u)
       \/ \E u \in Users : CmdClearCurrent(u)
       \/ \E u \in Users : CmdClearAll(u)
       \/ \E u \in Users : CmdHistory(u)
       \/ \E u \in Users : CmdStart(u)

\* a suspended handler is resumed
Resume ==
    \/ \E k \in Tasks : PhotoOpen(k)
    \/ \E k \in Tasks : PhotoUpload(k)
    \/ \E k \in Tasks : PhotoAnswer(k)
    \/ \E k \in Tasks : PhotoAppend(k)
    \/ \E k \in Tasks : TextAnswer(k)

\* updates are handled concurrently: one may arrive while handlers are suspended
Next ==
    \/ \E k \in Tasks : Arrive(k)
    \/ Resume
    \/ Tick
    \/ Restart

\* no handler is suspended
Quiet == \A k \in Tasks : tasks[k].pc = "idle"

\* updates are handled one at a time: the next one is taken when the handler of
\* the previous one has returned
NextSeq ==
    \/ (Quiet /\ Arrive(1))
    \/ Resume
    \/ Tick
    \/ Restart

Spec == Init /\ [][Next]_vars

SpecSeq == Init /\ [][NextSeq]_vars

\* the state after user 1's first image turn, handled at second 1: the dialog
\* with its two messages, its index entry, the counters and the cached session
InitWarm ==
    /\ now = 1
    /\ users = (1 :> [first_seen |-> 1, last_seen |-> 1,
                      dialogs_index |-> <<IndexEntry(DialogId(1), 1)>>,
                      total_requests |-> 2, total_dialogs |-> 1, last_active_at |-> 1])
    /\ dialogs = [u \in Users |->
                    IF u = 1
                    THEN (DialogId(1) :> [started_at |-> 1, closed_at |-> NoTime,
                                          messages |-> <<Message(1, "user"),
                                                         Message(2, "assistant")>>])
                    ELSE <<>>]
    /\ sessions = (1 :> 1)
    /\ heap = (1 :> [NewSession(DialogId(1), 1) EXCEPT !.message_seq = 2])
    /\ tasks = [k \in Tasks |-> IdleTask]
    /\ started = 0
    /\ ev = [Event("photo_done", 1, "ok") EXCEPT !.dialog_id = DialogId(1), !.ret = 1]
    /\ g = GIdle
    /\ fs = <<>>
    /\ aw = AwIdle
    /\ ls = LsIdle

\* concurrent handling of the updates that follow a first image turn
SpecWarm == InitWarm /\ [][Next]_vars

----------------------------------------------------------------------------
(* GeminiClient, step by step *)

\* start_chat_and_answer_first lines 81-82: build_history_with_image uploads the
\* image outside the try block, then start_chat makes the handle c
GStart(c) ==
    /\ g.pc \in {"idle", "done"}
    /\ \E up \in Faults \cup {"ok"} :
         g' = IF up = "ok"
              THEN [GIdle EXCEPT !.op = "start", !.pc = "try", !.chat = c]
              ELSE Escaped([GIdle EXCEPT !.op = "start"], up)
    /\ UNCHANGED <<ls, mainVars, fs, aw>>

\* send_chat_message is called with the handle c
GSend(c) ==
    /\ g.pc \in {"idle", "done"}
    /\ g' = [GIdle EXCEPT !.op = "send", !.pc = "try", !.chat = c]
    /\ UNCHANGED <<ls, mainVars, fs, aw>>

\* the state of the call after an attempt with outcome out and answer ans
AfterAttempt(st, out, ans) ==
    LET t == [st EXCEPT !.trace = Append(@, AttemptEntry(out, ans))]
    IN IF out = "ok"
       THEN Returned(t, ans, IF st.op = "start" THEN st.chat ELSE 0)
       ELSE IF ~Retryable(out)
       THEN Raised(t, Classify(out))
       ELSE IF Exhausted(st.attempt + 1)
       THEN Raised([t EXCEPT !.attempt = @ + 1], Classify(out))
       ELSE [t EXCEPT !.attempt = @ + 1, !.pc = "sleep"]

\* one turn of the while loop: await asyncio.to_thread(_call) and its except clauses
GAttempt ==
    /\ g.pc = "try"
    /\ \E out \in Faults \cup {"ok"}, ans \in Answers :
         /\ (out # "ok" => ans = 1)
         /\ g' = AfterAttempt(g, out, IF out = "ok" THEN ans ELSE 0)
    /\ UNCHANGED <<ls, mainVars, fs, aw>>

\* await asyncio.sleep(0.8 * attempt)
GSleep ==
    /\ g.pc = "sleep"
    /\ g' = [g EXCEPT !.pc = "try", !.trace = Append(@, SleepEntry(Delay(g.attempt)))]
    /\ UNCHANGED <<ls, mainVars, fs, aw>>

NextGemini ==
    \/ \E c \in Chats : GStart(c)
    \/ \E c \in Chats : GSend(c)
    \/ GAttempt
    \/ GSleep

SpecGemini == Init /\ [][NextGemini]_vars

----------------------------------------------------------------------------
(* _atomic_write, step by step *)

\* tmp.open("w"): the target is created or truncated
AwOpen(p, v) ==
    /\ aw.pc # "writing"
    /\ \E ms \in Stamps :
         LET n == WriteTarget(p, ms)
         IN /\ fs' = Put(fs, n, <<>>)
            /\ aw' = [aw EXCEPT !.pc = "writing", !.path = p, !.doc = v, !.tmp = n,
                                !.old = ReadFile(fs, p),
                                !.read = NoFile, !.readPath = 0]
    /\ UNCHANGED <<ls, mainVars, g>>

\* json.dump writes the next chunk of the document
AwWrite ==
    /\ aw.pc = "writing"
    /\ Len(fs[aw.tmp]) < Chunks
    /\ fs' = [fs EXCEPT ![aw.tmp] = Append(@, Serialize(aw.doc)[Len(@) + 1])]
    /\ UNCHANGED <<ls, mainVars, g, aw>>

\* os.replace(tmp, path), after the with block has closed the file
AwReplace ==
    /\ aw.pc = "writing"
    /\ Len(fs[aw.tmp]) = Chunks
    /\ fs' = IF aw.tmp = aw.path THEN fs
             ELSE Drop(Put(fs, aw.path, fs[aw.tmp]), {aw.tmp})
    /\ aw' = [aw EXCEPT !.pc = "replaced"]
    /\ UNCHANGED <<ls, mainVars, g>>

\* the write is interrupted before os.replace (the process is killed, or dump raises)
AwInterrupt ==
    /\ aw.pc = "writing"
    /\ aw' = [aw EXCEPT !.pc = "interrupted"]
    /\ UNCHANGED <<ls, mainVars, g, fs>>

\* a reader (load_user, get_dialog) reads a final path
AwRead(p) ==
    /\ aw' = [aw EXCEPT !.read = ReadFile(fs, p), !.readPath = p]
    /\ UNCHANGED <<ls, mainVars, g, fs>>

NextAtomic ==
    \/ \E p \in Paths, v \in Docs : AwOpen(p, v)
    \/ AwWrite
    \/ AwReplace
    \/ AwInterrupt
    \/ \E p \in Paths : AwRead(p)

SpecAtomic == Init /\ [][NextAtomic]_vars

----------------------------------------------------------------------------
(* /history: the listing *)

\* an index on disk and a /history command with its argument
InitList ==
    /\ now = 1
    /\ users = <<>>
    /\ dialogs = [u \in Users |-> <<>>]
    /\ sessions = <<>>
    /\ heap = <<>>
    /\ tasks = [k \in Tasks |-> IdleTask]
    /\ started = 0
    /\ ev = Event("init", 0, "")
    /\ g = GIdle
    /\ fs = <<>>
    /\ aw = AwIdle
    /\ \E idx \in Indexes, arg \in HistoryArgs :
          ls = [LsIdle EXCEPT !.pc = "called", !.idx = idx, !.arg = arg]

\* cmd_history lines 93-98: parse the limit, call list_dialogs
CmdHistoryList ==
    /\ ls.pc = "called"
    /\ ls' = [ls EXCEPT !.pc = "done",
                        !.limit = HistoryLimit(ls.arg),
                        !.out = ListDialogs(ls.idx, HistoryLimit(ls.arg))]
    /\ UNCHANGED <<mainVars, g, fs, aw>>

NextList == CmdHistoryList

SpecList == InitList /\ [][NextList]_vars

----------------------------------------------------------------------------
(* Properties *)

\* the dialog ids in the index of user u
IndexIds(u) ==
    IF u \in DOMAIN users
    THEN {users[u].dialogs_index[i].dialog_id : i \in DOMAIN users[u].dialogs_index}
    ELSE {}

\* C1: in every dialog file the stored messages carry message_id 1, 2, ..., N in
\* list order.
C1_MessageIdsAreOneToN ==
    \A u \in Users : \A d \in DOMAIN dialogs[u] :
        \A i \in DOMAIN dialogs[u][d].messages :
            dialogs[u][d].messages[i].message_id = i

\* C2: between store operations, a user's index has an entry with dialog id d
\* exactly when the dialog file (user, d) exists.
C2_IndexEntryIffDialogFile ==
    \A u \in Users : IndexIds(u) = DOMAIN dialogs[u]

\* C2 witness: /clear current has deleted one dialog of a user who keeps another
C2_Witness ==
    /\ ev.op = "clear_current"
    /\ ev.res = "deleted"
    /\ ev.dialog_id \notin DOMAIN dialogs[ev.user]
    /\ DOMAIN dialogs[ev.user] # {}

\* C3: a session in the cache references a dialog that exists in the store and is
\* not closed.
C3_SessionDialogIsOpen ==
    \A u \in DOMAIN sessions :
        /\ heap[sessions[u]].dialog_id \in DOMAIN dialogs[u]
        /\ dialogs[u][heap[sessions[u]].dialog_id].closed_at = NoTime

\* C4: every final path holds a complete document or nothing; until the rename
\* the path holds what it held when the write began, after it the new document;
\* a reader of the path during or after the write gets one of those two.
C4_ReaderSeesOldOrNew ==
    /\ \A p \in Paths : ReadFile(fs, p) \in {NoFile} \cup {Serialize(v) : v \in Docs}
    /\ aw.pc \in {"writing", "interrupted"} => ReadFile(fs, aw.path) = aw.old
    /\ aw.pc = "replaced" => ReadFile(fs, aw.path) = Serialize(aw.doc)
    /\ aw.readPath # 0 => aw.read \in {NoFile} \cup {Serialize(v) : v \in Docs}
    /\ aw.readPath # 0 /\ aw.readPath = aw.path => aw.read \in {aw.old, Serialize(aw.doc)}

\* C4 witness: a reader gets the whole previous document while the temporary
\* file is half written
C4_Witness ==
    /\ aw.pc = "writing"
    /\ Len(fs[aw.tmp]) = 1
    /\ aw.readPath = aw.path
    /\ aw.old # NoFile
    /\ aw.old # Serialize(aw.doc)
    /\ aw.read = aw.old

\* C5: get returns the stored session exactly when one is stored and
\* now - last_activity_at <= idle timeout; otherwise it returns None and no entry
\* is left; an entry disappears only by a clear, a restart or an expired get, and
\* appears only by set.
C5_GetAndLazyEviction ==
    /\ [](ev.get =>
            /\ (ev.ret # 0) <=> (ev.had /\ now - ev.last <= IdleSeconds)
            /\ ev.ret = 0 => ev.user \notin DOMAIN sessions
            /\ (ev.ret # 0 /\ ev.op = "text") =>
                    (ev.user \in DOMAIN sessions /\ sessions[ev.user] = ev.ret))
    /\ [][\A u \in Users :
            /\ (u \in DOMAIN sessions /\ u \notin DOMAIN sessions') =>
                  \/ ev'.op \in {"clear_current", "clear_all", "restart"}
                  \/ (ev'.get /\ ev'.user = u /\ now' - ev'.last > IdleSeconds)
            /\ (u \notin DOMAIN sessions /\ u \in DOMAIN sessions') =>
                  (ev'.op = "set" /\ ev'.user = u)]_vars

\* C5 witness: a get found an entry idle for longer than the timeout and evicted it
C5_Witness ==
    /\ ev.get
    /\ ev.op = "text"
    /\ ev.had
    /\ ev.ret = 0
    /\ ev.user \notin DOMAIN sessions

\* C6: a text turn that succeeds leaves the session's last_activity_at at the
\* time of the turn.
C6_TextTurnRefreshesActivity ==
    (ev.op = "text_done" /\ ev.ret \in DOMAIN heap) =>
        heap[ev.ret].last_activity_at = now

\* the attempts of the call, in order
Attempts == SelectSeq(g.trace, LAMBDA x : x.e = "attempt")

\* the sleeps of the call, in order
Sleeps == SelectSeq(g.trace, LAMBDA x : x.e = "sleep")

\* C7: when attempt 1 raises a retryable fault and attempt 2 succeeds, the call
\* returns attempt 2's answer (start: with the handle it made), and the only
\* sleep is one of 0.8 s x 1 between the two attempts.
C7_SecondAttemptAnswer ==
    (/\ Len(Attempts) = 2
     /\ Attempts[1].out \in {"GoogleAPICallError", "Exception"}
     /\ Attempts[2].out = "ok") =>
        /\ g.pc = "done"
        /\ g.kind = "return"
        /\ g.answer = Attempts[2].n
        /\ g.op = "start" => g.handle = g.chat
        /\ g.trace = <<Attempts[1], SleepEntry(8), Attempts[2]>>

\* C7 witness: start_chat_and_answer_first answered on its second attempt
C7_Witness ==
    /\ g.op = "start"
    /\ g.kind = "return"
    /\ Len(Attempts) = 2
    /\ Attempts[1].out = "GoogleAPICallError"
    /\ g.answer = 2

C9_TwoAttemptsThenClassified ==
    /\ Len(Attempts) <= 2
    /\ Len(Sleeps) <= 1
    /\ Len(Attempts) = 2 => g.pc = "done"
    /\ (/\ Len(Attempts) = 2
        /\ Attempts[1].out \in {"GoogleAPICallError", "Exception"}
        /\ Attempts[2].out \in {"GoogleAPICallError", "Exception"}) =>
            /\ g.kind = "RuntimeError"
            /\ Attempts[2].out = "GoogleAPICallError" => g.value = "gemini_api_error"
            /\ Attempts[2].out = "Exception" => g.value = "gemini_unknown_error"

\* C9 witness: an unrecognized fault, then a provider fault that ends the budget
C9_Witness ==
    /\ Len(Attempts) = 2
    /\ Attempts[1].out = "Exception"
    /\ Attempts[2].out = "GoogleAPICallError"
    /\ g.value = "gemini_api_error"

\* provider I/O of the turn in slot k is outstanding
IoOutstanding(k) == tasks[k].pc \in {"upload", "start_chat", "send_chat"}

\* the next step of the suspended handler in slot k
Step(k) ==
    PhotoOpen(k) \/ PhotoUpload(k) \/ PhotoAnswer(k) \/ PhotoAppend(k) \/ TextAnswer(k)

\* C11: while provider I/O of one user's turn is outstanding, every suspended turn
\* of another user can take its next step (no provider call occupies the event
\* loop).
C11_OtherTurnsProceedDuringIo ==
    \A k \in Tasks : IoOutstanding(k) =>
        \A j \in Tasks :
            (tasks[j].pc # "idle" /\ tasks[j].user # tasks[k].user) => ENABLED Step(j)

\* the events with which a turn on one of the two paths (image, text with a
\* session) is over
TurnEnds == {"photo_done", "photo_failed", "photo_raised",
             "text_done", "text_failed", "text_raised"}

\* the step appends exactly the two messages user, assistant to dialog d of user u
\* and leaves the other dialogs of u as they are
AppendsPair(u, d) ==
    /\ d \in DOMAIN dialogs[u]
    /\ DOMAIN dialogs'[u] = DOMAIN dialogs[u]
    /\ \A x \in DOMAIN dialogs[u] : x # d => dialogs'[u][x] = dialogs[u][x]
    /\ Len(dialogs'[u][d].messages) = Len(dialogs[u][d].messages) + 2
    /\ SubSeq(dialogs'[u][d].messages, 1, Len(dialogs[u][d].messages))
          = dialogs[u][d].messages
    /\ dialogs'[u][d].messages[Len(dialogs[u][d].messages) + 1].role = "user"
    /\ dialogs'[u][d].messages[Len(dialogs[u][d].messages) + 2].role = "assistant"

\* C12: the step that ends a turn, on the image path or on the text path, appends
\* exactly two messages to one dialog of the turn's user: a user message, then an
\* assistant message right after it.
C12_EveryTurnAppendsPair ==
    [][ev'.op \in TurnEnds => \E d \in DOMAIN dialogs[ev'.user] : AppendsPair(ev'.user, d)]_vars

\* C13: a text turn with an active session whose model call succeeds appends
\* exactly two messages to the session's dialog, numbered message_seq + 1 and
\* message_seq + 2, and creates no dialog file and no index entry.
C13_TextTurnContinuesDialog ==
    [][ev'.op \in {"text_done", "text_raised"} =>
          LET u == ev'.user
              r == ev'.ret
              d == heap[r].dialog_id
              n == heap[r].message_seq
              k == IF d \in DOMAIN dialogs[u] THEN Len(dialogs[u][d].messages) ELSE 0
          IN /\ AppendsPair(u, d)
             /\ dialogs'[u][d].messages[k + 1].message_id = n + 1
             /\ dialogs'[u][d].messages[k + 2].message_id = n + 2
             /\ \A v \in Users : DOMAIN dialogs'[v] = DOMAIN dialogs[v]
             /\ \A v \in DOMAIN users : users'[v].dialogs_index = users[v].dialogs_index
       ]_vars

\* the dialog most recently created for user u: the last entry of the index
NewestDialog(u) ==
    LET idx == users[u].dialogs_index
    IN IF idx = <<>> THEN 0 ELSE idx[Len(idx)].dialog_id

\* C14: a text turn is appended to the dialog that the user's most recent image
\* turn created, never to an earlier one.
C14_TextGoesToNewestDialog ==
    ev.op = "text_done" => ev.dialog_id = NewestDialog(ev.user)

\* C15: dialog ids are unique per user: the index of a user never holds two
\* entries with one dialog id, and an image turn never opens a dialog under an id
\* for which the user already has a dialog file.
C15_DialogIdsUnique ==
    /\ [](\A u \in DOMAIN users :
            \A i, j \in DOMAIN users[u].dialogs_index :
                users[u].dialogs_index[i].dialog_id = users[u].dialogs_index[j].dialog_id
                    => i = j)
    /\ [][ev'.op = "photo_opened" => ev'.dialog_id \notin DOMAIN dialogs[ev'.user]]_vars

\* the dialogs of user u older than the retention cutoff
TooOld(u) == {d \in DOMAIN dialogs[u] : dialogs[u][d].started_at < now - RetentionSeconds}

\* C16: a step that runs prune_old removes exactly the dialog files started
\* before now - retention and the index entries of those dialogs, leaves every
\* other dialog file and index entry as it was, and returns the number of
\* dialogs removed.
C16_PruneRemovesExactlyOld ==
    [][ev'.op \in {"history", "photo", "text"} =>
          /\ \A u \in Users :
                /\ DOMAIN dialogs'[u] = (DOMAIN dialogs[u]) \ TooOld(u)
                /\ \A d \in DOMAIN dialogs'[u] : dialogs'[u][d] = dialogs[u][d]
          /\ \A u \in DOMAIN users :
                users'[u].dialogs_index =
                    SelectSeq(users[u].dialogs_index, LAMBDA e : e.dialog_id \notin TooOld(u))
          /\ ev'.count = Cardinality({p \in Users \X Times : p[2] \in TooOld(p[1])})
       ]_vars

\* C16 witness: /history pruned one dialog and kept a newer one, file and entry
C16_Witness ==
    /\ ev.op = "history"
    /\ ev.count = 1
    /\ \E u \in DOMAIN users :
          /\ DOMAIN dialogs[u] # {}
          /\ IndexIds(u) = DOMAIN dialogs[u]
          /\ users[u].total_dialogs > Len(users[u].dialogs_index)

\* C17: after delete_dialog(u, d) there is no file and no index entry for d and
\* the other dialogs and entries of u are as before; after clear_all_dialogs(u)
\* u has no dialog file and an empty index, and the count returned is the number
\* of dialog files u had; other users' dialogs are untouched by both.
C17_DeleteAndClearAll ==
    [][/\ (ev'.op = "clear_current" /\ ev'.res = "deleted") =>
             LET u == ev'.user
                 d == ev'.dialog_id
             IN /\ DOMAIN dialogs'[u] = (DOMAIN dialogs[u]) \ {d}
                /\ \A x \in DOMAIN dialogs'[u] : dialogs'[u][x] = dialogs[u][x]
                /\ u \in DOMAIN users =>
                      users'[u].dialogs_index =
                          SelectSeq(users[u].dialogs_index, LAMBDA e : e.dialog_id # d)
                /\ \A v \in Users \ {u} : dialogs'[v] = dialogs[v]
       /\ ev'.op = "clear_all" =>
             LET u == ev'.user
             IN /\ DOMAIN dialogs'[u] = {}
                /\ u \in DOMAIN users => users'[u].dialogs_index = <<>>
                /\ ev'.count = Cardinality(DOMAIN dialogs[u])
                /\ \A v \in Users \ {u} : dialogs'[v] = dialogs[v]
      ]_vars

\* C17 witness: /clear all removed the two dialogs of a user and emptied the index
C17_Witness ==
    /\ ev.op = "clear_all"
    /\ ev.count = 2
    /\ DOMAIN dialogs[ev.user] = {}
    /\ ev.user \in DOMAIN users
    /\ users[ev.user].dialogs_index = <<>>
    /\ users[ev.user].total_dialogs = 2

\* C18: append_message on an absent dialog file raises FileNotFoundError and
\* changes no dialog file and no total_requests; the two successful appends of a
\* turn add their two messages, in order, at the end of the dialog's message list
\* and raise the user's total_requests by one each.
C18_AppendMessage ==
    [][/\ (ev'.op \in {"photo_raised", "text_raised"} /\ ev'.res = "FileNotFoundError") =>
             /\ ev'.dialog_id \notin DOMAIN dialogs[ev'.user]
             /\ dialogs' = dialogs
             /\ users' = users
       /\ ev'.op \in {"photo_done", "text_done"} =>
             LET u == ev'.user
                 d == ev'.dialog_id
                 n == heap[ev'.ret].message_seq
             IN /\ d \in DOMAIN dialogs[u]
                /\ dialogs'[u][d].messages =
                      dialogs[u][d].messages \o <<Message(n + 1, "user"),
                                                  Message(n + 2, "assistant")>>
                /\ dialogs' = [dialogs EXCEPT ![u][d].messages = dialogs'[u][d].messages]
                /\ users'[u].total_requests = users[u].total_requests + 2
                /\ users' = [users EXCEPT ![u].total_requests = users'[u].total_requests]
      ]_vars

\* C18 witness: the append of a text turn found the dialog file gone, after the
\* image turn's two appends had been counted
C18_Witness ==
    /\ ev.op = "text_raised"
    /\ ev.res = "FileNotFoundError"
    /\ ev.dialog_id \notin DOMAIN dialogs[ev.user]
    /\ users[ev.user].total_requests = 2

\* C19: no step changes the first_seen of a profile or removes a profile; the
\* first init_user_if_needed of a user creates the profile with first_seen = now,
\* every later one changes only last_seen and last_active_at; other profiles are
\* untouched and the value returned is the profile now stored.
C19_InitUserIdempotent ==
    /\ [][\A u \in DOMAIN users :
            u \in DOMAIN users' /\ users'[u].first_seen = users[u].first_seen]_vars
    /\ [][ev'.op = "start" =>
            LET u == ev'.user
            IN /\ DOMAIN users' = (DOMAIN users) \cup {u}
               /\ \A v \in DOMAIN users : v # u => users'[v] = users[v]
               /\ u \notin DOMAIN users =>
                     /\ users'[u].first_seen = now
                     /\ users'[u].dialogs_index = <<>>
               /\ u \in DOMAIN users =>
                     users'[u] = [users[u] EXCEPT !.last_seen = now, !.last_active_at = now]
               /\ InitUserRet(users, u, now) = users'[u]
         ]_vars

\* C19 witness: /start of a user whose profile was created a second earlier and
\* has a dialog in its index
C19_Witness ==
    /\ ev.op = "start"
    /\ ev.user \in DOMAIN users
    /\ users[ev.user].first_seen = 1
    /\ users[ev.user].last_seen = 2
    /\ users[ev.user].last_active_at = 2
    /\ users[ev.user].total_dialogs = 1
    /\ Len(users[ev.user].dialogs_index) = 1

\* C20: list_dialogs returns at most limit entries (none for a limit below 1),
\* in descending order of started_at, all of them entries of the index, and the
\* whole index when limit >= the index size.
C20_ListDialogs ==
    ls.pc = "done" =>
        /\ Len(ls.out) <= (IF ls.limit > 0 THEN ls.limit ELSE 0)
        /\ \A i, j \in DOMAIN ls.out : i < j => ls.out[i].started_at >= ls.out[j].started_at
        /\ \A i \in DOMAIN ls.out : \E j \in DOMAIN ls.idx : ls.out[i] = ls.idx[j]
        /\ ls.limit >= Len(ls.idx) =>
              /\ Len(ls.out) = Len(ls.idx)
              /\ \A j \in DOMAIN ls.idx : \E i \in DOMAIN ls.out : ls.out[i] = ls.idx[j]

\* C21: no step lowers a user's total_requests or total_dialogs; the steps that
\* delete, clear or prune (and nothing else) leave both counters of every user as
\* they were.
C21_CountersNeverDecrease ==
    /\ [][\A u \in DOMAIN users :
            /\ u \in DOMAIN users'
            /\ users'[u].total_requests >= users[u].total_requests
            /\ users'[u].total_dialogs >= users[u].total_dialogs]_vars
    /\ [][ev'.op \in {"clear_current", "clear_all", "history", "photo", "text"} =>
            \A u \in DOMAIN users :
                /\ users'[u].total_requests = users[u].total_requests
                /\ users'[u].total_dialogs = users[u].total_dialogs]_vars

\* C21 witness: /history pruned the only dialog of a user after a whole image turn:
\* the index is empty, the counters still count the dialog and its two messages
C21_Witness ==
    /\ ev.op = "history"
    /\ ev.count = 1
    /\ \E u \in DOMAIN users :
          /\ users[u].dialogs_index = <<>>
          /\ users[u].total_dialogs = 1
          /\ users[u].total_requests = 2

\* user u has no session that get would return: none stored (restart, clear,
\* earlier eviction), or one idle for longer than the timeout
SessionLost(u) == u \notin DOMAIN sessions \/ Expired(heap[sessions[u]], now)

\* C22: a text turn of a user whose session is lost is rejected: no model call is
\* awaited, no dialog file is created or changed in content (files past retention
\* are pruned as on every message), no index entry is created, and no session
\* is left for the user.
C22_LostSessionTextRejected ==
    [][(ev'.op = "text" /\ SessionLost(ev'.user)) =>
          /\ ev'.res = "no_session"
          /\ \A k \in Tasks : tasks'[k].pc = tasks[k].pc
          /\ ev'.user \notin DOMAIN sessions'
          /\ \A u \in Users :
                /\ DOMAIN dialogs'[u] = (DOMAIN dialogs[u]) \ TooOld(u)
                /\ \A d \in DOMAIN dialogs'[u] : dialogs'[u][d] = dialogs[u][d]
          /\ \A u \in DOMAIN users :
                /\ Len(users'[u].dialogs_index) <= Len(users[u].dialogs_index)
                /\ users'[u].total_dialogs = users[u].total_dialogs
                /\ users'[u].total_requests = users[u].total_requests
       ]_vars

\* C22 witness: after a restart a text of a user with a two-message dialog on
\* disk was rejected and the dialog is as it was
C22_Witness ==
    /\ ev.op = "text"
    /\ ev.res = "no_session"
    /\ ~ev.had
    /\ \A k \in Tasks : tasks[k].pc = "idle"
    /\ \E d \in DOMAIN dialogs[ev.user] : Len(dialogs[ev.user][d].messages) = 2

\* C23: a step in which an exception leaves a handler unclassified sends exactly
\* the generic apology of the error handler, leaves the handler's coroutine
\* finished and the event loop free, and the next update can be taken.
C23_EscapedFailureHandledOnce ==
    ev.op \in {"photo_raised", "text_raised"} =>
        /\ ev.res \in Errors
        /\ ev.reply = "apology"
        /\ LoopFree
        /\ \E k \in Tasks : tasks[k].pc = "idle"
        /\ started < MaxTurns => ENABLED (\E k \in Tasks : Arrive(k))

\* C23 witness: a storage not-found raised by the append of a text turn was
\* answered with the apology, and another update can still be handled
C23_Witness ==
    /\ ev.op = "text_raised"
    /\ ev.res = "FileNotFoundError"
    /\ ev.reply = "apology"
    /\ started < MaxTurns
    /\ ENABLED (\E k \in Tasks : Arrive(k))

\* the cache entry of user v and the session it refers to are the same before
\* and after the step
SessionKept(v) ==
    /\ (v \in DOMAIN sessions) <=> (v \in DOMAIN sessions')
    /\ v \in DOMAIN sessions =>
          /\ sessions'[v] = sessions[v]
          /\ heap'[sessions'[v]] = heap[sessions[v]]

\* C24 as stated: a handler step for one user leaves the profile, the dialog
\* files and the cache entry of every other user unchanged.
C24_OtherUsersUntouched ==
    [][ev'.user \in Users =>
          \A v \in Users \ {ev'.user} :
              /\ dialogs'[v] = dialogs[v]
              /\ v \in DOMAIN users => (v \in DOMAIN users' /\ users'[v] = users[v])
              /\ SessionKept(v)
       ]_vars

\* C24 amended: a handler step for one user changes, of another user's state,
\* only what the retention prune removes: dialog files started before
\* now - retention and the index entries of those dialogs; every other file, the
\* rest of the profile and the cache entry are unchanged.
C24_OtherUsersOnlyPruned ==
    [][ev'.user \in Users =>
          \A v \in Users \ {ev'.user} :
              /\ DOMAIN dialogs'[v] \subseteq DOMAIN dialogs[v]
              /\ (DOMAIN dialogs[v]) \ (DOMAIN dialogs'[v]) \subseteq TooOld(v)
              /\ \A d \in DOMAIN dialogs'[v] : dialogs'[v][d] = dialogs[v][d]
              /\ v \in DOMAIN users =>
                    /\ v \in DOMAIN users'
                    /\ users'[v] =
                          [users[v] EXCEPT !.dialogs_index =
                              SelectSeq(@, LAMBDA e : e.dialog_id \notin
                                  (DOMAIN dialogs[v]) \ (DOMAIN dialogs'[v]))]
              /\ SessionKept(v)
       ]_vars

\* C24 witness: /history of a user with no profile pruned the dialog of another
\* user, whose cache entry is still there
C24_Witness ==
    /\ ev.op = "history"
    /\ ev.count = 1
    /\ ev.user \notin DOMAIN users
    /\ \E v \in (DOMAIN sessions) \ {ev.user} :
          /\ users[v].total_dialogs = 1
          /\ users[v].dialogs_index = <<>>
          /\ DOMAIN dialogs[v] = {}

C26_SeqEqualsStoredMessages ==
    \A u \in DOMAIN sessions :
        LET s == heap[sessions[u]]
        IN s.dialog_id \in DOMAIN dialogs[u] =>
              s.message_seq = Len(dialogs[u][s.dialog_id].messages)

\* InitWarm is a state of Spec: the first image turn has just ended
WarmStateOfSpec ==
    /\ now = 1
    /\ started = 1
    /\ ev.op = "photo_done"
    /\ ev.user = 1
    /\ 1 \in DOMAIN users
    /\ users[1].total_requests = 2
    /\ users[1].dialogs_index = <<IndexEntry(DialogId(1), 1)>>
    /\ DOMAIN dialogs[1] = {DialogId(1)}
    /\ Len(dialogs[1][DialogId(1)].messages) = 2
    /\ sessions = (1 :> 1)
    /\ heap = (1 :> [NewSession(DialogId(1), 1) EXCEPT !.message_seq = 2])
    /\ \A k \in Tasks : tasks[k] = IdleTask

\* C27: when the model answers a text turn whose dialog was deleted (by /clear or
\* by a prune) while the turn awaited the answer, the append raises
\* FileNotFoundError, no dialog file and no profile changes (so total_requests is
\* not increased), and the dialog is still absent.
C27_LateAppendAfterDelete ==
    [][\A k \in Tasks :
          (/\ tasks[k].pc = "send_chat"
           /\ tasks[k].gone
           /\ ev'.op \in {"text_done", "text_raised"}
           /\ tasks'[k].pc = "idle") =>
              /\ ev'.op = "text_raised"
              /\ ev'.res = "FileNotFoundError"
              /\ dialogs' = dialogs
              /\ users' = users
              /\ heap[tasks[k].ref].dialog_id \notin DOMAIN dialogs'[tasks[k].user]
       ]_vars

\* C10: a call that fails raises RuntimeError with one of the three codes.
C10_OnlyClassifiedErrors ==
    (g.pc = "done" /\ g.kind # "return") =>
        (g.kind = "RuntimeError" /\ g.value \in Codes)

====
